---- MODULE Spec2Model ----
(***************************************************************************)
(* Model of the chat client of openmanus-web:                              *)
(*   src/client/src/contexts/ChatContext.tsx  (ChatProvider)               *)
(*   src/client/src/lib/api.ts                (OpenManusAPI)               *)
(*   src/client/src/pages/Home.tsx            (handleSend)                 *)
(*                                                                         *)
(* React state and refs of ChatProvider are the variables.  Every handler  *)
(* (effect, cleanup, UI callback, WebSocket event, timer callback) runs to *)
(* completion on the single event loop and is one action; the state        *)
(* updaters a handler queues are applied in the order it queued them.      *)
(*                                                                         *)
(* Closures: connectWebSocket is memoized with an empty dependency list    *)
(* (ChatContext.tsx:107) and the mount effect has an empty dependency list *)
(* (ChatContext.tsx:311), so both, and the handleWebSocketMessage they     *)
(* reach, are the closures of the first render and read the first render's *)
(* values of sessions and currentSessionId.  sendMessage, deleteSession    *)
(* and clearCurrentSession are re-created when their dependencies change   *)
(* and read the current values.                                            *)
(*                                                                         *)
(* Not modelled: message ids and timestamps, createdAt (never read by the  *)
(* handlers; the id lookup of sendMessage always finds the message it has  *)
(* just pushed), the double invocation of updaters in development          *)
(* StrictMode, and clearCurrentSession, which no component calls.          *)
(***************************************************************************)
EXTENDS Integers, Sequences, FiniteSets, TLC

\* ---------------------------------------------------------------- bounds
MaxWs       == 3   \* WebSocket objects that exist at the same time
MaxSessions == 2   \* session ids generated
MaxMsgs     == 3   \* messages in one session
MaxTasks    == 2   \* task frames written
MaxNow      == 1   \* clock ticks
MaxCalls    == 3   \* mutations (create, add, update, delete) received by the server

\* ------------------------------------------------------ program constants
maxReconnectAttempts == 5
BaseDelay            == 3000
CapDelay             == 30000
TitleLimit           == 50

Null      == 0               \* null currentSessionId / wsRef / timer handle
Undefined == "<undefined>"   \* absent optional field

\* BACKEND_URL is a well-formed http(s) URL, so new WebSocket() does not throw
UrlValid == TRUE

VARIABLES
  sessions,           \* useState: list of ChatSession, newest first
  currentSessionId,   \* useState: id of the active session or Null
  isConnected,        \* useState: connectivity flag
  isProcessing,       \* useState: processing flag
  wsRef,              \* useRef: the socket owned by the manager, or Null
  reconnectTimeout,   \* delay of the pending retry timer, or Null when none is pending
  reconnectAttempts,  \* useRef: reconnect-attempt counter
  sockets,            \* readyState of every WebSocket object (slot -> state)
  wire,               \* frames written with ws.send, in order
  nextSession,        \* number of session ids generated so far
  now,                \* clock read by new Date()
  mounted,            \* the mount effect has run and its cleanup has not
  rx,                 \* the frame last handed to ws.onmessage, and whether it was dispatched
  e2e,                \* observer: progress through the send/started/status/completed exchange
  phase,              \* observer: progress through the open/3 failures/restart/open run
  origin,             \* observer of SpecTasks: for each frame of wire, the session active when it was sent
  rxTask,             \* observer of SpecTasks: position in wire of the task the last inbound frame reports on, else 0
  tx,                 \* observer of SpecRemount: the input last submitted with handleSend, and whether it went on to sendMessage
  chatSessions,       \* rows of table chatSessions
  chatMessages,       \* rows of table chatMessages
  sessionSeq,         \* last value of the serial chatSessions.id
  messageSeq,         \* last value of the serial chatMessages.id
  calls,              \* per request slot: the procedure call being served and its position
  ncalls,             \* number of mutations received
  reply,              \* the outcome of the call that has just returned, if the last step returned one
  createdBy,          \* observer of SpecServer: <<id, user>> for every session row inserted, by whose call
  deleted,            \* observer of SpecServer: ids whose creator's deleteSession has returned success
  added               \* observer of SpecServer: the message rows inserted, in order of insertion

vars == <<sessions, currentSessionId, isConnected, isProcessing, wsRef,
          reconnectTimeout, reconnectAttempts, sockets, wire, nextSession,
          now, mounted, rx, e2e, phase, origin, rxTask, tx,
          chatSessions, chatMessages, sessionSeq, messageSeq, calls, ncalls,
          reply, createdBy, deleted, added>>

connVars == <<wsRef, reconnectTimeout, reconnectAttempts, sockets, isConnected>>
chatVars == <<sessions, currentSessionId, isProcessing, wire, nextSession>>
dbVars     == <<chatSessions, chatMessages, sessionSeq, messageSeq, calls, ncalls>>
serverVars == <<dbVars, reply>>
serverObs  == <<createdBy, deleted, added>>
clientVars == <<connVars, chatVars, mounted, rx, e2e, phase, origin, rxTask, tx>>

Min(a, b) == IF a < b THEN a ELSE b

\* ------------------------------------------------------------ data types
Slots == 1..MaxWs

\* JavaScript truthiness of an optional string field
Truthy(x) == x # Undefined /\ x # ""

EventTypes == {"task_started", "status", "log", "task_completed", "task_failed", "error"}

\* What the backend can put on the wire.  json = FALSE: text that JSON.parse
\* rejects.  json = TRUE: an object with the fields shown (Undefined = absent);
\* a type outside EventTypes is an object that is not an Event.
MkData(j, t, m, r, e) == [json |-> j, type |-> t, message |-> m, result |-> r, error |-> e]

BadJson  == MkData(FALSE, Undefined, Undefined, Undefined, Undefined)
NonEvent == MkData(TRUE, Undefined, "thinking", "hi there", "boom")

EventFrames ==
  {MkData(TRUE, "task_started", Undefined, Undefined, Undefined)}
  \cup {MkData(TRUE, t, m, Undefined, Undefined) : t \in {"status", "log"}, m \in {Undefined, "", "thinking"}}
  \cup {MkData(TRUE, "task_completed", Undefined, r, Undefined) : r \in {Undefined, "hi there"}}
  \cup {MkData(TRUE, "task_failed", Undefined, Undefined, e) : e \in {Undefined, "boom"}}
  \cup {MkData(TRUE, "error", m, Undefined, e) : m \in {Undefined, "thinking"}, e \in {Undefined, "boom"}}

Data == EventFrames \cup {BadJson, NonEvent}

Inputs == {"", " ", "hello"}   \* text of the input box

NoRx == [data |-> BadJson, dispatched |-> FALSE, seen |-> FALSE]
NoTx == [input |-> "", accepted |-> FALSE, seen |-> FALSE]

\* ctx.user.id of the callers, and the requests the server works on at once
Users == {1, 2}
Procs == {1, 2}

\* a request slot with no call in it
NoCall == [op |-> "none", user |-> 0, sid |-> 0, k |-> 0, pc |-> "idle", made |-> 0]

\* no call has just returned
NoReply == [call |-> NoCall, result |-> "none", retId |-> 0, retRows |-> <<>>]

\* ------------------------------------------------------------------ Init
Init ==
  /\ sessions = <<>>
  /\ currentSessionId = Null
  /\ isConnected = FALSE
  /\ isProcessing = FALSE
  /\ wsRef = Null
  /\ reconnectTimeout = Null
  /\ reconnectAttempts = 0
  /\ sockets = [w \in Slots |-> "NONE"]
  /\ wire = <<>>
  /\ nextSession = 0
  /\ now = 0
  /\ mounted = FALSE
  /\ rx = NoRx
  /\ e2e = 0
  /\ phase = "idle"
  /\ origin = <<>>
  /\ rxTask = 0
  /\ tx = NoTx
  /\ chatSessions = {}
  /\ chatMessages = {}
  /\ sessionSeq = 0
  /\ messageSeq = 0
  /\ calls = [p \in Procs |-> NoCall]
  /\ ncalls = 0
  /\ reply = NoReply
  /\ createdBy = {}
  /\ deleted = {}
  /\ added = <<>>

\* ------------------------------------------------- connection manager
ReadyState(w) == sockets[w]

\* A CLOSED socket that wsRef no longer references fires no further event and
\* is unreachable: its slot is free again.
Gc(socks, ref) == [w \in Slots |-> IF socks[w] = "CLOSED" /\ w # ref THEN "NONE" ELSE socks[w]]

FreeSlots == {w \in Slots : sockets[w] = "NONE"}
NewSlot   == CHOOSE w \in FreeSlots : \A v \in FreeSlots : w <= v

\* BackoffDelay without the 30000 ms ceiling
BackoffDelayUncapped(n) == BaseDelay * (2 ^ n)

\* Math.min(3000 * Math.pow(2, n), 30000)
BackoffDelay(n) == Min(BaseDelay * (2 ^ n), CapDelay)

\* connectWebSocket() entered with the attempt counter at `attempts`
WouldCreate(attempts) ==
  /\ ~(wsRef # Null /\ sockets[wsRef] = "OPEN")
  /\ attempts < maxReconnectAttempts
  /\ UrlValid

\* ConnectWebSocket without the check of maxReconnectAttempts
ConnectWebSocketNoLimit(attempts) ==
  IF wsRef # Null /\ sockets[wsRef] = "OPEN"
  THEN UNCHANGED <<sockets, wsRef, isConnected>>
  ELSE /\ FreeSlots # {}
       /\ wsRef' = NewSlot
       /\ sockets' = Gc([sockets EXCEPT ![NewSlot] = "CONNECTING"], NewSlot)
       /\ UNCHANGED isConnected

\* ConnectWebSocket without the early return on an open connection
ConnectWebSocketNoOpenCheck(attempts) ==
  IF attempts >= maxReconnectAttempts
  THEN /\ isConnected' = FALSE
       /\ UNCHANGED <<sockets, wsRef>>
  ELSE /\ FreeSlots # {}
       /\ wsRef' = NewSlot
       /\ sockets' = Gc([sockets EXCEPT ![NewSlot] = "CONNECTING"], NewSlot)
       /\ UNCHANGED isConnected

ConnectWebSocket(attempts) ==
  IF wsRef # Null /\ sockets[wsRef] = "OPEN"
  THEN UNCHANGED <<sockets, wsRef, isConnected>>
  ELSE IF attempts >= maxReconnectAttempts
  THEN /\ isConnected' = FALSE
       /\ UNCHANGED <<sockets, wsRef>>
  ELSE IF UrlValid
  THEN /\ FreeSlots # {}
       /\ wsRef' = NewSlot
       /\ sockets' = Gc([sockets EXCEPT ![NewSlot] = "CONNECTING"], NewSlot)
       /\ UNCHANGED isConnected
  ELSE /\ isConnected' = FALSE
       /\ UNCHANGED <<sockets, wsRef>>

\* OnOpen that leaves the attempt counter alone
OnOpenNoReset ==
  /\ isConnected' = TRUE
  /\ UNCHANGED reconnectAttempts

\* OnOpen that leaves the connectivity flag alone
OnOpenNoFlag ==
  /\ UNCHANGED isConnected
  /\ reconnectAttempts' = 0

\* ws.onopen
OnOpen ==
  /\ isConnected' = TRUE
  /\ reconnectAttempts' = 0

\* OnClose that sets a retry timer whatever the attempt counter
OnCloseNoLimit ==
  /\ isConnected' = FALSE
  /\ reconnectTimeout' = BackoffDelay(reconnectAttempts)

\* OnClose that still sets a retry timer when the counter is at the limit
OnCloseInclusiveLimit ==
  /\ isConnected' = FALSE
  /\ reconnectTimeout' = IF reconnectAttempts <= maxReconnectAttempts
                         THEN BackoffDelay(reconnectAttempts)
                         ELSE reconnectTimeout

\* onClose callback passed to api.createWebSocket (the onError callback, which
\* runs first when the connection failed, also sets isConnected to false)
OnClose ==
  /\ isConnected' = FALSE
  /\ reconnectTimeout' = IF reconnectAttempts < maxReconnectAttempts
                         THEN BackoffDelay(reconnectAttempts)
                         ELSE reconnectTimeout

\* the browser establishes connection w and fires open
WsOpen(w) ==
  /\ sockets[w] = "CONNECTING"
  /\ sockets' = [sockets EXCEPT ![w] = "OPEN"]
  /\ OnOpen
  /\ rx' = NoRx
  /\ UNCHANGED <<wsRef, reconnectTimeout, chatVars, now, mounted>>

\* WsClosed with a close handler that also deselects the active session
WsClosedDeselects(w) ==
  /\ sockets[w] \in {"CONNECTING", "OPEN", "CLOSING"}
  /\ sockets' = Gc([sockets EXCEPT ![w] = "CLOSED"], wsRef)
  /\ OnClose
  /\ rx' = NoRx
  /\ currentSessionId' = Null
  /\ UNCHANGED <<wsRef, reconnectAttempts, sessions, isProcessing, wire, nextSession, now, mounted>>

\* the browser closes connection w (failure, drop, or end of a close()
\* handshake): readyState CLOSED, then error (when failed) and close fire
WsClosed(w) ==
  /\ sockets[w] \in {"CONNECTING", "OPEN", "CLOSING"}
  /\ sockets' = Gc([sockets EXCEPT ![w] = "CLOSED"], wsRef)
  /\ OnClose
  /\ rx' = NoRx
  /\ UNCHANGED <<wsRef, reconnectAttempts, chatVars, now, mounted>>

\* TimerFire that connects before it counts the attempt
TimerFireConnectsFirst ==
  /\ reconnectTimeout # Null
  /\ reconnectTimeout' = Null
  /\ reconnectAttempts' = reconnectAttempts + 1
  /\ ConnectWebSocket(reconnectAttempts)
  /\ rx' = NoRx
  /\ UNCHANGED <<chatVars, now, mounted>>

\* the retry timer set by the close handler fires
TimerFire ==
  /\ reconnectTimeout # Null
  /\ reconnectTimeout' = Null
  /\ reconnectAttempts' = reconnectAttempts + 1
  /\ ConnectWebSocket(reconnectAttempts + 1)
  /\ rx' = NoRx
  /\ UNCHANGED <<chatVars, now, mounted>>

\* ------------------------------------------------------------- sessions
SessionIds == {sessions[i].id : i \in 1..Len(sessions)}

\* findIndex(s => s.id === sid), 0 when there is none
FindIndex(ss, sid) ==
  IF \E i \in 1..Len(ss) : ss[i].id = sid
  THEN CHOOSE i \in 1..Len(ss) : ss[i].id = sid /\ \A j \in 1..(i - 1) : ss[j].id # sid
  ELSE 0

CurrentSession == FindIndex(sessions, currentSessionId)

NewSession(id) == [id |-> id, title |-> "New Chat", messages |-> <<>>, updatedAt |-> now]

Msg(role, content, status) == [role |-> role, content |-> content, status |-> status]

\* messages.push(m); updatedAt = new Date()
PushMessage(ss, i, m) ==
  [ss EXCEPT ![i] = [@ EXCEPT !.messages = Append(@, m), !.updatedAt = now]]

\* createSession()
CreatedSessions == <<NewSession(nextSession + 1)>> \o sessions

CreateSession ==
  /\ mounted
  /\ nextSession < MaxSessions
  /\ sessions' = CreatedSessions
  /\ currentSessionId' = nextSession + 1
  /\ nextSession' = nextSession + 1
  /\ rx' = NoRx
  /\ UNCHANGED <<connVars, isProcessing, wire, now, mounted>>

\* selectSession(sessionId), from a click on a listed session
SelectSession(sid) ==
  /\ mounted
  /\ sid \in SessionIds
  /\ currentSessionId' = sid
  /\ rx' = NoRx
  /\ UNCHANGED <<connVars, sessions, isProcessing, wire, nextSession, now, mounted>>

\* deleteSession(sessionId), from the delete button of a listed session
DeleteSession(sid) ==
  /\ mounted
  /\ sid \in SessionIds
  /\ sessions' = SelectSeq(sessions, LAMBDA s : s.id # sid)
  /\ currentSessionId' = IF currentSessionId = sid THEN Null ELSE currentSessionId
  /\ rx' = NoRx
  /\ UNCHANGED <<connVars, isProcessing, wire, nextSession, now, mounted>>

\* ------------------------------------------------- mount effect, cleanup
\* sessions as the effect closure sees it: the first render's value
MountSessions == <<>>

Mount ==
  /\ ~mounted
  /\ mounted' = TRUE
  /\ IF Len(MountSessions) = 0
     THEN /\ nextSession < MaxSessions
          /\ sessions' = CreatedSessions
          /\ currentSessionId' = nextSession + 1
          /\ nextSession' = nextSession + 1
     ELSE UNCHANGED <<sessions, currentSessionId, nextSession>>
  /\ ConnectWebSocket(reconnectAttempts)
  /\ rx' = NoRx
  /\ UNCHANGED <<reconnectTimeout, reconnectAttempts, isProcessing, wire, now>>

\* ws.close(): a socket that is CONNECTING or OPEN starts closing
CloseSocket(socks, w) ==
  IF w # Null /\ socks[w] \in {"CONNECTING", "OPEN"}
  THEN [socks EXCEPT ![w] = "CLOSING"]
  ELSE socks

Unmount ==
  /\ mounted
  /\ mounted' = FALSE
  /\ sockets' = CloseSocket(sockets, wsRef)
  /\ reconnectTimeout' = Null
  /\ rx' = NoRx
  /\ UNCHANGED <<wsRef, reconnectAttempts, isConnected, chatVars, now>>

Tick ==
  /\ now < MaxNow
  /\ now' = now + 1
  /\ rx' = NoRx
  /\ UNCHANGED <<connVars, chatVars, mounted>>

\* ------------------------------------------------------ sending a task
\* String.prototype.trim (spaces are the only whitespace of Inputs)
RECURSIVE TrimStart(_)
TrimStart(s) ==
  IF Len(s) > 0 /\ SubSeq(s, 1, 1) = " " THEN TrimStart(SubSeq(s, 2, Len(s))) ELSE s

RECURSIVE TrimEnd(_)
TrimEnd(s) ==
  IF Len(s) > 0 /\ SubSeq(s, Len(s), Len(s)) = " " THEN TrimEnd(SubSeq(s, 1, Len(s) - 1)) ELSE s

Trim(s) == TrimEnd(TrimStart(s))

\* content.slice(0, 50) + (content.length > 50 ? '...' : '')
Title(content) ==
  SubSeq(content, 1, Min(Len(content), TitleLimit))
    \o (IF Len(content) > TitleLimit THEN "..." ELSE "")

\* nanoid(): a fresh non-empty identifier; the k-th task frame gets "t<k>"
TaskIds == <<"t1", "t2", "t3", "t4">>
NanoId  == TaskIds[Len(wire) + 1]

\* the request object handed to sendTask (Undefined = field absent)
Request(type, prompt, taskId) == [type |-> type, prompt |-> prompt, task_id |-> taskId]

\* TaskFrame that copies the request without adding the tag
TaskFrameNoTag(request) ==
  [type |-> request.type, prompt |-> request.prompt, task_id |-> request.task_id]

\* { type: 'task', ...request }, then JSON.stringify (drops absent fields)
TaskFrame(request) ==
  [type    |-> IF request.type # Undefined THEN request.type ELSE "task",
   prompt  |-> request.prompt,
   task_id |-> request.task_id]

\* SendTaskThrows of a sendTask that writes whatever the readyState
SendTaskNeverThrows(w) == FALSE

\* api.sendTask(ws, request): TRUE when it throws 'WebSocket is not open'
SendTaskThrows(w) == sockets[w] # "OPEN"

\* the request sendMessage builds: { prompt: content, task_id: nanoid() }
MessageRequest(content) == Request(Undefined, content, NanoId)

\* SentSessions of a sendMessage without the catch: the message ends 'sent'
SentSessionsNoCatch(content) ==
  LET i      == CurrentSession
      pushed == PushMessage(sessions, i, Msg("user", content, "sent"))
  IN  IF i = 0 THEN sessions
      ELSE IF Len(pushed[i].messages) = 1
           THEN [pushed EXCEPT ![i].title = Title(content)]
           ELSE pushed

\* sendMessage(content), after its guard: the three updaters it queues
SentSessions(content) ==
  LET i      == CurrentSession
      status == IF SendTaskThrows(wsRef) THEN "error" ELSE "sent"
      pushed == PushMessage(sessions, i, Msg("user", content, status))
  IN  IF i = 0 THEN sessions
      ELSE IF Len(pushed[i].messages) = 1
           THEN [pushed EXCEPT ![i].title = Title(content)]
           ELSE pushed

SendMessage(content) ==
  /\ currentSessionId # Null
  /\ wsRef # Null
  /\ isConnected
  /\ CurrentSession # 0 => Len(sessions[CurrentSession].messages) < MaxMsgs
  /\ ~SendTaskThrows(wsRef) => Len(wire) < MaxTasks
  /\ sessions' = SentSessions(content)
  /\ wire' = IF SendTaskThrows(wsRef) THEN wire
             ELSE Append(wire, TaskFrame(MessageRequest(content)))

\* Home.handleSend with inputValue = input
HandleSend(input) ==
  /\ mounted
  /\ ~(Trim(input) = "" \/ ~isConnected \/ isProcessing)
  /\ SendMessage(input)
  /\ rx' = NoRx
  /\ UNCHANGED <<connVars, currentSessionId, isProcessing, nextSession, now, mounted>>

\* Home.handleSend returning at its first line: nothing is sent, nothing is
\* recorded, the input stays in the box
HandleSendRefused(input) ==
  /\ mounted
  /\ Trim(input) = "" \/ ~isConnected \/ isProcessing
  /\ rx' = NoRx
  /\ UNCHANGED <<connVars, chatVars, now, mounted>>

\* ---------------------------------------------------- inbound frames
\* ParseOk of a parser that never throws
ParseNeverThrows(data) == TRUE

\* JSON.parse(event.data) succeeds
ParseOk(data) == data.json

\* HandlerSessionId of a handler that reads the latest currentSessionId
HandlerSessionIdLatest == currentSessionId

\* currentSessionId as handleWebSocketMessage sees it: the value of the
\* render whose connectWebSocket is memoized, the first one
HandlerSessionId == Null

\* HandledSessions of a handler that starts every message list afresh
HandledSessionsReset(message) ==
  [i \in 1..Len(sessions) |-> [sessions[i] EXCEPT !.messages = <<>>]]

\* the setSessions updater of handleWebSocketMessage(message)
HandledSessions(message) ==
  LET i == FindIndex(sessions, HandlerSessionId) IN
  IF i = 0 THEN sessions
  ELSE CASE message.type \in {"status", "log"} ->
              IF Truthy(message.message)
              THEN PushMessage(sessions, i, Msg("system", message.message, "sent"))
              ELSE sessions
         [] message.type = "task_completed" ->
              IF Truthy(message.result)
              THEN PushMessage(sessions, i, Msg("assistant", message.result, "sent"))
              ELSE sessions
         [] message.type = "task_failed" ->
              PushMessage(sessions, i,
                Msg("system",
                    "Error: " \o (IF Truthy(message.error) THEN message.error ELSE "Task failed"),
                    "error"))
         [] message.type = "error" ->
              PushMessage(sessions, i,
                Msg("system",
                    "Error: " \o (IF Truthy(message.message) THEN message.message ELSE "Unknown error"),
                    "error"))
         [] OTHER -> sessions

\* HandledProcessing with setIsProcessing called before the session lookup
HandledProcessingUnguarded(message) ==
  CASE message.type = "task_started" -> TRUE
    [] message.type \in {"task_completed", "task_failed", "error"} -> FALSE
    [] OTHER -> isProcessing

\* the setIsProcessing calls made inside that updater
HandledProcessing(message) ==
  IF FindIndex(sessions, HandlerSessionId) = 0 THEN isProcessing
  ELSE CASE message.type = "task_started" -> TRUE
         [] message.type \in {"task_completed", "task_failed", "error"} -> FALSE
         [] OTHER -> isProcessing

HandleWebSocketMessage(message) ==
  /\ LET i == FindIndex(sessions, HandlerSessionId)
     IN  i # 0 => Len(HandledSessions(message)[i].messages) <= MaxMsgs
  /\ sessions' = HandledSessions(message)
  /\ isProcessing' = HandledProcessing(message)

\* ws.onmessage of socket w with event.data = data
WsMessage(w, data) ==
  /\ sockets[w] = "OPEN"
  /\ IF ParseOk(data)
     THEN HandleWebSocketMessage(data)
     ELSE UNCHANGED <<sessions, isProcessing>>
  /\ rx' = [data |-> data, dispatched |-> ParseOk(data), seen |-> TRUE]
  /\ UNCHANGED <<connVars, currentSessionId, wire, nextSession, now, mounted>>

\* --------------------------------------------- OpenManusAPI.sendTask
\* requests a caller of the exported api object can hand to sendTask
Requests ==
  {Request(t, "hello", id) : t \in {Undefined, "status"}, id \in {Undefined, "t9"}}

\* api.sendTask(wsRef.current, request) called directly
ApiSendTask(request) ==
  /\ wsRef # Null
  /\ ~SendTaskThrows(wsRef)
  /\ Len(wire) < MaxTasks
  /\ wire' = Append(wire, TaskFrame(request))
  /\ rx' = NoRx
  /\ UNCHANGED <<connVars, sessions, currentSessionId, isProcessing, nextSession, now, mounted>>

\* ------------------------------------------------------------ observers
\* The observers record how far a run has got through a scenario; no action
\* of the program reads them.
Started     == MkData(TRUE, "task_started", Undefined, Undefined, Undefined)
Thinking    == MkData(TRUE, "status", "thinking", Undefined, Undefined)
CompletedHi == MkData(TRUE, "task_completed", Undefined, "hi there", Undefined)

\* sendMessage("hello") on an open connection, active session without messages
E2eSend(input) ==
  IF /\ input = "hello"
     /\ sockets[wsRef] = "OPEN"
     /\ CurrentSession # 0
     /\ Len(sessions[CurrentSession].messages) = 0
  THEN 1 ELSE 0

E2eMessage(w, data) ==
  IF w = wsRef /\ e2e = 1 /\ data = Started THEN 2
  ELSE IF w = wsRef /\ e2e = 2 /\ data = Thinking THEN 3
  ELSE IF w = wsRef /\ e2e = 3 /\ data = CompletedHi THEN 4
  ELSE 0

LiveSockets == {w \in Slots : sockets[w] \in {"CONNECTING", "OPEN"}}
ExistingSockets == {w \in Slots : sockets[w] \in {"CONNECTING", "OPEN", "CLOSING"}}

\* open: the only socket there is has opened, no retry pending.  fail1..fail3: that many
\* connections in a row have since failed before opening, and the retry of
\* the last failure has not fired.  stop3, restart: the effect was torn down
\* and run again at fail3.  reopen: the connection made by restart opened.
PhaseOpen(w) ==
  IF phase = "restart" /\ w = wsRef THEN "reopen"
  ELSE IF ExistingSockets = {w} /\ reconnectTimeout = Null THEN "open"
  ELSE "idle"

PhaseClosed(w) ==
  IF sockets[w] = "OPEN" /\ phase = "open" THEN "open"
  ELSE IF sockets[w] = "CONNECTING" /\ phase = "open" THEN "fail1"
  ELSE IF sockets[w] = "CONNECTING" /\ phase = "fail1" THEN "fail2"
  ELSE IF sockets[w] = "CONNECTING" /\ phase = "fail2" THEN "fail3"
  ELSE "idle"

PhaseTimer == IF phase \in {"open", "fail1", "fail2"} THEN phase ELSE "idle"

PhaseUnmount == IF phase = "fail3" THEN "stop3" ELSE "idle"

PhaseMount == IF phase = "stop3" THEN "restart" ELSE "idle"

\* origin after sendMessage: a frame that was written came from the session
\* that was active
SentOrigin == IF Len(wire') > Len(wire) THEN Append(origin, currentSessionId) ELSE origin

Submitted(input, accepted) == [input |-> input, accepted |-> accepted, seen |-> TRUE]

\* a step the observers origin, rxTask and tx do not follow
NoTask == rxTask' = 0 /\ tx' = NoTx /\ UNCHANGED origin

\* ----------------------------------------------- server: chat router
\* Every await of chatDb is one statement sent to the database; the
\* statements of requests in different slots interleave.  getDb() yields a
\* database throughout.
Ops == {"createSession", "getSessions", "getMessages", "addMessage",
        "updateSession", "deleteSession"}

\* the first statement of each procedure
FirstPc(op) ==
  CASE op = "createSession" -> "insert"
    [] op = "getSessions"   -> "sessions"
    [] op = "getMessages"   -> "check"
    [] op = "addMessage"    -> "check"
    [] op = "updateSession" -> "update"
    [] op = "deleteSession" -> "messages"

\* inputs: addMessage's role and content (k: one more than the messages
\* stored so far, when the call arrives), the titles
Contents == <<"Message 1", "Message 2", "Message 3", "Message 4", "Message 5", "Message 6">>
RoleOf(k) == IF k % 2 = 1 THEN "user" ELSE "assistant"
Queries == {"getSessions", "getMessages"}
NewTitle == "Test Chat"
Renamed  == "Renamed"

\* a caller invokes procedure op in slot p; sid is an id some createSession
\* has handed out (the session may be another user's, or deleted by now)
Call(p, op, u, sid) ==
  /\ calls[p].pc = "idle"
  /\ \A q \in Procs : calls[q].pc = "idle" => p <= q
  /\ op \notin Queries => ncalls < MaxCalls
  /\ IF op \in {"createSession", "getSessions"} THEN sid = 0 ELSE sid \in 1..sessionSeq
  /\ calls' = [calls EXCEPT ![p] =
                 [NoCall EXCEPT !.op = op, !.user = u, !.sid = sid,
                                !.k = messageSeq + 1, !.pc = FirstPc(op)]]
  /\ ncalls' = IF op \in Queries THEN ncalls ELSE ncalls + 1
  /\ reply' = NoReply
  /\ UNCHANGED <<chatSessions, chatMessages, sessionSeq, messageSeq>>

At(p, op, pc) == calls[p].op = op /\ calls[p].pc = pc

\* the call in slot p returns (result ok) or throws (denied: 'Session not
\* found or access denied'; crash: a TypeError); the slot is free again
Done(p, result, retId, retRows) ==
  /\ calls' = [calls EXCEPT ![p] = NoCall]
  /\ reply' = [call |-> calls[p], result |-> result, retId |-> retId, retRows |-> retRows]

Goto(p, pc) ==
  /\ calls' = [calls EXCEPT ![p].pc = pc]
  /\ reply' = NoReply

\* the orders in which ORDER BY can return the rows of S: any order that
\* agrees with the key; rows with equal keys come in either order
Perms(S) ==
  {f \in [1..Cardinality(S) -> S] : \A x \in S : \E i \in 1..Cardinality(S) : f[i] = x}

\* orderBy(chatMessages.createdAt)
ByCreatedAt(S) ==
  {f \in Perms(S) : \A i, j \in 1..Cardinality(S) : i < j => f[i].createdAt <= f[j].createdAt}

\* orderBy(desc(chatSessions.updatedAt))
ByUpdatedAtDesc(S) ==
  {f \in Perms(S) : \A i, j \in 1..Cardinality(S) : i < j => f[i].updatedAt >= f[j].updatedAt}

\* the rows of S that orderBy(desc(createdAt)).limit(1) can return
Latest(S) == {r \in S : \A x \in S : r.createdAt >= x.createdAt}

\* now() and new Date() at a write: the clock reads the latest time stored
\* in the table (it has not advanced since that write, at the resolution
\* of a timestamp) or a later one
Max(T) == IF T = {} THEN 0 ELSE CHOOSE t \in T : \A x \in T : t >= x
SessionTimes == {r.createdAt : r \in chatSessions} \cup {r.updatedAt : r \in chatSessions}
MessageTimes == {m.createdAt : m \in chatMessages}
Clock(T) == {Max(T), Max(T) + 1}

SessionsOf(u)  == {r \in chatSessions : r.userId = u}
MessagesOf(sid) == {m \in chatMessages : m.sessionId = sid}

\* createChatSession: db.insert(chatSessions).values({ userId, title })
CreateChatSessionInsert(p) ==
  /\ At(p, "createSession", "insert")
  /\ \E t \in Clock(SessionTimes) :
       chatSessions' = chatSessions \cup
         {[id |-> sessionSeq + 1, userId |-> calls[p].user, title |-> NewTitle,
           createdAt |-> t, updatedAt |-> t]}
  /\ sessionSeq' = sessionSeq + 1
  /\ calls' = [calls EXCEPT ![p].pc = "latest", ![p].made = sessionSeq + 1]
  /\ reply' = NoReply
  /\ UNCHANGED <<chatMessages, messageSeq, ncalls>>

\* createChatSession: select ... where userId order by createdAt desc
\* limit 1; return sessions[0]!.id (a TypeError when there is no row)
CreateChatSessionSelect(p) ==
  /\ At(p, "createSession", "latest")
  /\ IF SessionsOf(calls[p].user) = {}
     THEN Done(p, "crash", 0, <<>>)
     ELSE \E r \in Latest(SessionsOf(calls[p].user)) : Done(p, "ok", r.id, <<>>)
  /\ UNCHANGED <<chatSessions, chatMessages, sessionSeq, messageSeq, ncalls>>

\* chat.getSessions: getUserChatSessions(ctx.user.id)
GetUserChatSessions(p) ==
  /\ At(p, "getSessions", "sessions")
  /\ \E f \in ByUpdatedAtDesc(SessionsOf(calls[p].user)) : Done(p, "ok", 0, f)
  /\ UNCHANGED <<chatSessions, chatMessages, sessionSeq, messageSeq, ncalls>>

\* GetChatSession that looks the session up by id alone
GetChatSessionAnyUser(sid, u) == \E r \in chatSessions : r.id = sid

\* getChatSession(sessionId, userId) returns a row
GetChatSession(sid, u) == \E r \in chatSessions : r.id = sid /\ r.userId = u

\* chat.getMessages / chat.addMessage: verify user owns this session
VerifyOwner(p) ==
  /\ calls[p].op \in {"getMessages", "addMessage"}
  /\ calls[p].pc = "check"
  /\ IF GetChatSession(calls[p].sid, calls[p].user)
     THEN Goto(p, IF calls[p].op = "getMessages" THEN "select" ELSE "insert")
     ELSE Done(p, "denied", 0, <<>>)
  /\ UNCHANGED <<chatSessions, chatMessages, sessionSeq, messageSeq, ncalls>>

\* getChatMessages(sessionId): order by createdAt
GetChatMessages(p) ==
  /\ At(p, "getMessages", "select")
  /\ \E f \in ByCreatedAt(MessagesOf(calls[p].sid)) : Done(p, "ok", 0, f)
  /\ UNCHANGED <<chatSessions, chatMessages, sessionSeq, messageSeq, ncalls>>

NewMessage(p, t) ==
  [id |-> messageSeq + 1, sessionId |-> calls[p].sid, role |-> RoleOf(calls[p].k),
   content |-> Contents[calls[p].k], createdAt |-> t]

\* addChatMessage: db.insert(chatMessages).values({ sessionId, role, content })
AddChatMessageInsert(p) ==
  /\ At(p, "addMessage", "insert")
  /\ \E t \in Clock(MessageTimes) : chatMessages' = chatMessages \cup {NewMessage(p, t)}
  /\ messageSeq' = messageSeq + 1
  /\ calls' = [calls EXCEPT ![p].pc = "touch", ![p].made = messageSeq + 1]
  /\ reply' = NoReply
  /\ UNCHANGED <<chatSessions, sessionSeq, ncalls>>

\* addChatMessage: update chatSessions set updatedAt where id = sessionId
AddChatMessageTouch(p) ==
  /\ At(p, "addMessage", "touch")
  /\ \E t \in Clock(SessionTimes) :
       chatSessions' = {IF r.id = calls[p].sid THEN [r EXCEPT !.updatedAt = t] ELSE r :
                          r \in chatSessions}
  /\ Goto(p, "latest")
  /\ UNCHANGED <<chatMessages, sessionSeq, messageSeq, ncalls>>

\* addChatMessage: select ... where sessionId order by createdAt desc
\* limit 1; return messages[0]!.id
AddChatMessageSelect(p) ==
  /\ At(p, "addMessage", "latest")
  /\ IF MessagesOf(calls[p].sid) = {}
     THEN Done(p, "crash", 0, <<>>)
     ELSE \E r \in Latest(MessagesOf(calls[p].sid)) : Done(p, "ok", r.id, <<>>)
  /\ UNCHANGED <<chatSessions, chatMessages, sessionSeq, messageSeq, ncalls>>

\* chat.updateSession: updateChatSession, then return { success: true }
UpdateChatSession(p) ==
  /\ At(p, "updateSession", "update")
  /\ \E t \in Clock(SessionTimes) :
       chatSessions' = {IF r.id = calls[p].sid /\ r.userId = calls[p].user
                        THEN [r EXCEPT !.title = Renamed, !.updatedAt = t] ELSE r :
                          r \in chatSessions}
  /\ Done(p, "ok", 0, <<>>)
  /\ UNCHANGED <<chatMessages, sessionSeq, messageSeq, ncalls>>

\* deleteChatSession: delete from chatMessages where sessionId = sessionId
DeleteChatSessionMessages(p) ==
  /\ At(p, "deleteSession", "messages")
  /\ chatMessages' = chatMessages \ MessagesOf(calls[p].sid)
  /\ Goto(p, "row")
  /\ UNCHANGED <<chatSessions, sessionSeq, messageSeq, ncalls>>

\* DeleteChatSessionRow that deletes the session whoever owns it
DeleteChatSessionRowAnyUser(p) ==
  /\ At(p, "deleteSession", "row")
  /\ chatSessions' = {r \in chatSessions : r.id # calls[p].sid}
  /\ Done(p, "ok", 0, <<>>)
  /\ UNCHANGED <<chatMessages, sessionSeq, messageSeq, ncalls>>

\* deleteChatSession: delete from chatSessions where id and userId; then
\* chat.deleteSession returns { success: true }
DeleteChatSessionRow(p) ==
  /\ At(p, "deleteSession", "row")
  /\ chatSessions' = {r \in chatSessions : ~(r.id = calls[p].sid /\ r.userId = calls[p].user)}
  /\ Done(p, "ok", 0, <<>>)
  /\ UNCHANGED <<chatMessages, sessionSeq, messageSeq, ncalls>>

\* observers of the server
NoServer == UNCHANGED <<serverVars, serverObs>>
NoObs    == UNCHANGED serverObs

Creator(sid) == {u \in Users : <<sid, u>> \in createdBy}

\* ------------------------------------------------------ specifications
\* Spec: the life of one mounted provider.  The effect runs once; the user
\* acts on the page while the sockets and the timer deliver their events.
Next ==
  \/ Mount /\ UNCHANGED <<e2e, phase>> /\ NoTask /\ NoServer
  \/ \E w \in Slots : WsOpen(w) /\ e2e' = 0 /\ UNCHANGED phase /\ NoTask /\ NoServer
  \/ \E w \in Slots : WsClosed(w) /\ e2e' = 0 /\ UNCHANGED phase /\ NoTask /\ NoServer
  \/ TimerFire /\ e2e' = 0 /\ UNCHANGED phase /\ NoTask /\ NoServer
  \/ \E w \in Slots, data \in Data : WsMessage(w, data) /\ e2e' = E2eMessage(w, data) /\ UNCHANGED phase /\ NoTask /\ NoServer
  \/ CreateSession /\ e2e' = 0 /\ UNCHANGED phase /\ NoTask /\ NoServer
  \/ \E sid \in 1..MaxSessions : SelectSession(sid) /\ e2e' = 0 /\ UNCHANGED phase /\ NoTask /\ NoServer
  \/ \E sid \in 1..MaxSessions : DeleteSession(sid) /\ e2e' = 0 /\ UNCHANGED phase /\ NoTask /\ NoServer
  \/ \E input \in Inputs : HandleSend(input) /\ e2e' = E2eSend(input) /\ UNCHANGED phase /\ NoTask /\ NoServer
  \/ Tick /\ UNCHANGED <<e2e, phase>> /\ NoTask /\ NoServer

Spec == Init /\ [][Next]_vars

\* SpecLifecycle: the connection manager alone, with the effect torn down
\* and run again (as React does on a development remount), which is the only
\* way connectWebSocket is invoked other than by the retry timer.  The page
\* actions left out do not write connVars and the actions kept do not read
\* chatVars beyond the bound on nextSession.
NextLifecycle ==
  \/ Mount /\ phase' = PhaseMount /\ UNCHANGED e2e /\ NoTask /\ NoServer
  \/ Unmount /\ phase' = PhaseUnmount /\ UNCHANGED e2e /\ NoTask /\ NoServer
  \/ \E w \in Slots : WsOpen(w) /\ phase' = PhaseOpen(w) /\ UNCHANGED e2e /\ NoTask /\ NoServer
  \/ \E w \in Slots : WsClosed(w) /\ phase' = PhaseClosed(w) /\ UNCHANGED e2e /\ NoTask /\ NoServer
  \/ TimerFire /\ phase' = PhaseTimer /\ UNCHANGED e2e /\ NoTask /\ NoServer

SpecLifecycle == Init /\ [][NextLifecycle]_vars

\* SpecApi: sendTask applied to the requests of Requests, and to those
\* sendMessage builds, on the connection of one mounted provider.
NextApi ==
  \/ Mount /\ UNCHANGED <<e2e, phase>> /\ NoTask /\ NoServer
  \/ \E w \in Slots : WsOpen(w) /\ UNCHANGED <<e2e, phase>> /\ NoTask /\ NoServer
  \/ \E w \in Slots : WsClosed(w) /\ UNCHANGED <<e2e, phase>> /\ NoTask /\ NoServer
  \/ TimerFire /\ UNCHANGED <<e2e, phase>> /\ NoTask /\ NoServer
  \/ \E input \in Inputs : HandleSend(input) /\ UNCHANGED <<e2e, phase>> /\ NoTask /\ NoServer
  \/ \E request \in Requests : ApiSendTask(request) /\ UNCHANGED <<e2e, phase>> /\ NoTask /\ NoServer

SpecApi == Init /\ [][NextApi]_vars

\* SpecRemount: the page sends tasks while the effect is torn down and run
\* again, so that sendMessage can find the connectivity flag set while the
\* socket wsRef refers to is not open.  The retry timer is left out:
\* sendMessage and sendTask read neither the timer nor the counter.
NextRemount ==
  \/ Mount /\ UNCHANGED <<e2e, phase>> /\ NoTask /\ NoServer
  \/ Unmount /\ UNCHANGED <<e2e, phase>> /\ NoTask /\ NoServer
  \/ \E w \in Slots : WsOpen(w) /\ UNCHANGED <<e2e, phase>> /\ NoTask /\ NoServer
  \/ \E w \in Slots : WsClosed(w) /\ UNCHANGED <<e2e, phase>> /\ NoTask /\ NoServer
  \/ \E input \in Inputs :
       HandleSend(input) /\ tx' = Submitted(input, TRUE) /\ rxTask' = 0 /\ UNCHANGED <<e2e, phase, origin>> /\ NoServer
  \/ \E input \in Inputs :
       HandleSendRefused(input) /\ tx' = Submitted(input, FALSE) /\ rxTask' = 0 /\ UNCHANGED <<e2e, phase, origin>> /\ NoServer

SpecRemount == Init /\ [][NextRemount]_vars

\* SpecTasks: the page of one mounted provider with the observers origin and
\* rxTask kept: every inbound frame reports on a task that was sent.  The
\* frames are one of each kind the handler tells apart; the clock stands still.
TaskEvents ==
  {Started, Thinking, CompletedHi,
   MkData(TRUE, "task_failed", Undefined, Undefined, "boom")}

NextTasks ==
  \/ Mount /\ UNCHANGED <<e2e, phase>> /\ NoTask /\ NoServer
  \/ \E w \in Slots : WsOpen(w) /\ UNCHANGED <<e2e, phase>> /\ NoTask /\ NoServer
  \/ \E w \in Slots : WsClosed(w) /\ UNCHANGED <<e2e, phase>> /\ NoTask /\ NoServer
  \/ TimerFire /\ UNCHANGED <<e2e, phase>> /\ NoTask /\ NoServer
  \/ \E w \in Slots, data \in TaskEvents, k \in 1..Len(wire) :
       WsMessage(w, data) /\ rxTask' = k /\ tx' = NoTx /\ UNCHANGED <<e2e, phase, origin>> /\ NoServer
  \/ CreateSession /\ UNCHANGED <<e2e, phase>> /\ NoTask /\ NoServer
  \/ \E sid \in 1..MaxSessions : SelectSession(sid) /\ UNCHANGED <<e2e, phase>> /\ NoTask /\ NoServer
  \/ \E sid \in 1..MaxSessions : DeleteSession(sid) /\ UNCHANGED <<e2e, phase>> /\ NoTask /\ NoServer
  \/ \E input \in Inputs :
       HandleSend(input) /\ origin' = SentOrigin /\ rxTask' = 0 /\ tx' = NoTx /\ UNCHANGED <<e2e, phase>> /\ NoServer

SpecTasks == Init /\ [][NextTasks]_vars

\* The observers of the server: who created which session, which sessions
\* their creator has deleted, which messages were added, in order.
Quiet == NoObs /\ UNCHANGED <<clientVars, now>>
SessionInserted(p) ==
  /\ CreateChatSessionInsert(p)
  /\ createdBy' = createdBy \cup {<<sessionSeq + 1, calls[p].user>>}
  /\ UNCHANGED <<deleted, added, clientVars, now>>
MessageInserted(p) ==
  /\ AddChatMessageInsert(p)
  /\ added' = Append(added, [id |-> messageSeq + 1, sessionId |-> calls[p].sid,
                             role |-> RoleOf(calls[p].k), content |-> Contents[calls[p].k],
                             by |-> calls[p].user])
  /\ UNCHANGED <<createdBy, deleted, clientVars, now>>
SessionDeleted(p) ==
  /\ DeleteChatSessionRow(p)
  /\ deleted' = IF calls[p].user \in Creator(calls[p].sid)
                THEN deleted \cup {calls[p].sid} ELSE deleted
  /\ UNCHANGED <<createdBy, added, clientVars, now>>

\* SpecServer: the chat router serving the calls of two users against the
\* two tables, one request at a time.
Serial == {1}
NextServer ==
  \/ \E p \in Serial, op \in Ops, u \in Users, sid \in 0..MaxCalls : Call(p, op, u, sid) /\ Quiet
  \/ \E p \in Serial : SessionInserted(p)
  \/ \E p \in Serial : CreateChatSessionSelect(p) /\ Quiet
  \/ \E p \in Serial : GetUserChatSessions(p) /\ Quiet
  \/ \E p \in Serial : VerifyOwner(p) /\ Quiet
  \/ \E p \in Serial : GetChatMessages(p) /\ Quiet
  \/ \E p \in Serial : MessageInserted(p)
  \/ \E p \in Serial : AddChatMessageTouch(p) /\ Quiet
  \/ \E p \in Serial : AddChatMessageSelect(p) /\ Quiet
  \/ \E p \in Serial : UpdateChatSession(p) /\ Quiet
  \/ \E p \in Serial : DeleteChatSessionMessages(p) /\ Quiet
  \/ \E p \in Serial : SessionDeleted(p)

SpecServer == Init /\ [][NextServer]_vars

\* SpecRace: the router serving two requests of one user at a time, their
\* statements interleaved: creating, adding and deleting race each other.
Racer == {1}
RaceOps == {"createSession", "addMessage", "deleteSession"}
NextRace ==
  \/ \E p \in Procs, op \in RaceOps, u \in Racer, sid \in 0..MaxCalls : Call(p, op, u, sid) /\ Quiet
  \/ \E p \in Procs : SessionInserted(p)
  \/ \E p \in Procs : CreateChatSessionSelect(p) /\ Quiet
  \/ \E p \in Procs : VerifyOwner(p) /\ Quiet
  \/ \E p \in Procs : MessageInserted(p)
  \/ \E p \in Procs : AddChatMessageTouch(p) /\ Quiet
  \/ \E p \in Procs : AddChatMessageSelect(p) /\ Quiet
  \/ \E p \in Procs : DeleteChatSessionMessages(p) /\ Quiet
  \/ \E p \in Procs : SessionDeleted(p)

SpecRace == Init /\ [][NextRace]_vars

\* SpecRecover: one run of the mount effect; connections open or are lost
\* while the page creates, selects and deletes sessions (none of which
\* touches the connection).  The effect runs, a timer that was set fires,
\* and a connection that stays connecting opens (the backend is reachable
\* whenever connections stop being lost).
EffectRuns  == Mount /\ UNCHANGED <<e2e, phase>> /\ NoTask /\ NoServer
Opens       == \E w \in Slots : WsOpen(w) /\ UNCHANGED <<e2e, phase>> /\ NoTask /\ NoServer
Lost        == \E w \in Slots : WsClosed(w) /\ UNCHANGED <<e2e, phase>> /\ NoTask /\ NoServer
RetryFires  == TimerFire /\ UNCHANGED <<e2e, phase>> /\ NoTask /\ NoServer
NextRecover ==
  \/ EffectRuns
  \/ Opens
  \/ Lost
  \/ RetryFires
  \/ CreateSession /\ UNCHANGED <<e2e, phase>> /\ NoTask /\ NoServer
  \/ \E sid \in 1..MaxSessions : SelectSession(sid) /\ UNCHANGED <<e2e, phase>> /\ NoTask /\ NoServer
  \/ \E sid \in 1..MaxSessions : DeleteSession(sid) /\ UNCHANGED <<e2e, phase>> /\ NoTask /\ NoServer

SpecRecover ==
  /\ Init
  /\ [][NextRecover]_vars
  /\ WF_vars(EffectRuns)
  /\ WF_vars(Opens)
  /\ WF_vars(RetryFires)

TypeOK ==
  /\ isConnected \in BOOLEAN
  /\ isProcessing \in BOOLEAN
  /\ wsRef \in Slots \cup {Null}
  /\ reconnectAttempts \in 0..maxReconnectAttempts
  /\ \A w \in Slots : sockets[w] \in {"NONE", "CONNECTING", "OPEN", "CLOSING", "CLOSED"}
  /\ Len(origin) <= Len(wire)
  /\ rxTask \in 0..Len(origin)
  /\ tx.input \in Inputs
  /\ sessionSeq \in 0..MaxCalls
  /\ messageSeq \in 0..MaxCalls
  /\ ncalls \in 0..MaxCalls
  /\ \A p \in Procs : calls[p].op \in Ops \cup {"none"}
  /\ \A r \in chatSessions : r.id \in 1..sessionSeq /\ r.userId \in Users
  /\ \A m \in chatMessages : m.id \in 1..messageSeq /\ m.sessionId \in 1..sessionSeq

\* =================================================================== claims
RolesContents(msgs) == [k \in 1..Len(msgs) |-> <<msgs[k].role, msgs[k].content>>]

ActiveMessages == sessions[CurrentSession].messages

\* C1 (as claimed): after sendMessage("hello") on an open connection with an
\* empty active session, followed by task_started, status "thinking" and
\* task_completed "hi there" in that order, the active session holds
\* [user "hello", system "thinking", assistant "hi there"] and the processing
\* flag is false.
C1_EndToEnd ==
  e2e = 4 =>
    /\ CurrentSession # 0
    /\ RolesContents(ActiveMessages) =
         <<(<<"user", "hello">>), (<<"system", "thinking">>), (<<"assistant", "hi there">>)>>
    /\ ~isProcessing

\* a step that invokes connectWebSocket with the attempt counter at 5 or more
ExhaustedStart ==
  \/ Mount /\ reconnectAttempts >= maxReconnectAttempts
  \/ TimerFire /\ reconnectAttempts + 1 >= maxReconnectAttempts

\* C2: connectWebSocket invoked with the attempt counter >= 5 creates no
\* connection, leaves no retry timer pending and leaves isConnected false.
C2_ExhaustedStartIsInert ==
  [][ExhaustedStart =>
        /\ sockets' = sockets
        /\ wsRef' = wsRef
        /\ reconnectTimeout' = Null
        /\ isConnected' = FALSE]_vars

C2_Witness ==
  /\ reconnectAttempts = maxReconnectAttempts
  /\ reconnectTimeout = Null
  /\ ~isConnected
  /\ LiveSockets = {}

ExpectedDelays == <<3000, 6000, 12000, 24000, 30000>>

\* C3: the close handler run with the attempt counter at n in 0..4 schedules
\* the retry after 3000, 6000, 12000, 24000, 30000 ms respectively; the delay
\* never decreases with n and never exceeds 30000.
C3_BackoffDelays ==
  [][\A w \in Slots :
       WsClosed(w) /\ reconnectAttempts < maxReconnectAttempts =>
         /\ reconnectTimeout' = ExpectedDelays[reconnectAttempts + 1]
         /\ reconnectTimeout' <= 30000
         /\ reconnectAttempts > 0 => BackoffDelay(reconnectAttempts - 1) <= reconnectTimeout']_vars

C3_Witness ==
  /\ reconnectAttempts = 4
  /\ reconnectTimeout = 30000

\* C4: after an open followed by three connections in a row that fail, the
\* attempt counter is 3; the effect run again at that point creates a
\* connection that is connecting (so can open); when it opens the counter is
\* 0, the flag is true and it is the only live connection.
C4_ReconnectScenario ==
  /\ phase = "open" /\ sockets[wsRef] = "OPEN" => reconnectAttempts = 0
  /\ phase = "fail3" => reconnectAttempts = 3
  /\ phase = "restart" =>
       /\ wsRef # Null
       /\ sockets[wsRef] = "CONNECTING"
       /\ LiveSockets = {wsRef}
  /\ phase = "reopen" =>
       /\ reconnectAttempts = 0
       /\ isConnected
       /\ LiveSockets = {wsRef}
       /\ sockets[wsRef] = "OPEN"

C4_Witness ==
  /\ phase = "reopen"
  /\ reconnectAttempts = 0
  /\ sockets[wsRef] = "OPEN"

LastWritten == wire'[Len(wire')]

Received(types) == rx'.seen /\ rx'.data.json /\ rx'.data.type \in types

\* the step appended exactly one message (role, content) to the active
\* session, set its updatedAt, and changed no other session
AppendedOne(role, content) ==
  /\ CurrentSession # 0
  /\ \E status \in {"sending", "sent", "error"} :
       sessions' = PushMessage(sessions, CurrentSession, Msg(role, content, status))

\* C6 (as claimed): with an active session, a status or log event with a
\* non-empty message appends one system message with that content to the
\* active session and sets its updatedAt; without a message nothing changes.
C6_StatusAppends ==
  [][Received({"status", "log"}) /\ CurrentSession # 0 =>
       IF Truthy(rx'.data.message)
       THEN AppendedOne("system", rx'.data.message) /\ isProcessing' = isProcessing
       ELSE UNCHANGED <<sessions, currentSessionId, isProcessing>>]_vars

\* C7 (as claimed): with an active session, task_completed leaves the
\* processing flag false and appends one assistant message holding the
\* result when there is one, none otherwise.
C7_CompletedAppends ==
  [][Received({"task_completed"}) /\ CurrentSession # 0 =>
       /\ isProcessing' = FALSE
       /\ IF Truthy(rx'.data.result)
          THEN AppendedOne("assistant", rx'.data.result)
          ELSE sessions' = sessions]_vars

Malformed(data) == ~data.json \/ data.type \notin EventTypes

MalformedIsInert ==
  UNCHANGED <<sessions, currentSessionId, isProcessing, isConnected,
              reconnectAttempts, reconnectTimeout, sockets, wsRef, wire>>

\* C8 (as claimed): a frame that does not parse, or parses to something that
\* is not an Event, changes no state, is not dispatched to the handler and
\* leaves the connection open.
C8_MalformedNotDispatched ==
  [][rx'.seen /\ Malformed(rx'.data) => MalformedIsInert /\ ~rx'.dispatched]_vars

\* C8 (amended): a frame that does not parse changes no state, is not
\* dispatched and leaves the connection open; a frame that parses to
\* something that is not an Event is dispatched to the handler, and it too
\* changes no state and leaves the connection open.
C8_MalformedIsInert ==
  [][rx'.seen /\ Malformed(rx'.data) =>
       /\ MalformedIsInert
       /\ rx'.dispatched = rx'.data.json
       /\ \E w \in Slots : sockets'[w] = "OPEN"]_vars

C8_Witness ==
  /\ rx.seen
  /\ rx.data = BadJson
  /\ ~rx.dispatched
  /\ wsRef # Null
  /\ sockets[wsRef] = "OPEN"
  /\ CurrentSession # 0

\* sub occurs in s
Contains(s, sub) ==
  \E k \in 1..(Len(s) - Len(sub) + 1) : SubSeq(s, k, k + Len(sub) - 1) = sub

GenericFailures == {"Error: Task failed", "Error: Unknown error"}

MessageTexts == {"Error: " \o t : t \in {"boom", "thinking", "Task failed", "Unknown error"}}

\* C9 (as claimed): with an active session, task_failed and error set the
\* processing flag false and append one system message that contains the
\* event's error text when it has one and is a generic failure text otherwise.
C9_FailureAppends ==
  [][Received({"task_failed", "error"}) /\ CurrentSession # 0 =>
       /\ isProcessing' = FALSE
       /\ \E content \in MessageTexts :
            /\ AppendedOne("system", content)
            /\ IF Truthy(rx'.data.error)
               THEN Contains(content, rx'.data.error)
               ELSE content \in GenericFailures]_vars

\* C10 (as claimed): with an active session, task_started sets the
\* processing flag and appends no message.
C10_StartedSetsProcessing ==
  [][Received({"task_started"}) /\ CurrentSession # 0 =>
       /\ isProcessing' = TRUE
       /\ sessions' = sessions]_vars

\* C11: with no active session (currentSessionId null or naming no listed
\* session), an inbound event of any type leaves the session list, every
\* message list and the processing flag unchanged.
C11_NoActiveSessionDrops ==
  [][rx'.seen /\ CurrentSession = 0 => UNCHANGED <<sessions, isProcessing>>]_vars

C11_Witness ==
  /\ rx.seen
  /\ rx.dispatched
  /\ rx.data.type = "task_started"
  /\ CurrentSession = 0
  /\ Len(sessions) > 0
  /\ ~isProcessing

\* w exists and is not the socket the manager owns: wsRef has moved on to a
\* newer socket
Superseded(w) == w # wsRef /\ sockets[w] \in {"CONNECTING", "OPEN", "CLOSING"}

\* C13 (as claimed): an error or close event delivered by a superseded
\* connection changes neither the sessions, the processing flag, the
\* connectivity flag, the attempt counter nor the retry timer.
C13_StaleEventsIgnored ==
  [][\A w \in Slots :
       Superseded(w) /\ WsClosed(w) =>
         UNCHANGED <<sessions, isProcessing, isConnected, reconnectAttempts, reconnectTimeout>>]_vars

\* C14 (as claimed): at most one connection is Connecting or Open.
C14_AtMostOneLive == Cardinality(LiveSockets) <= 1

\* C15 (as claimed): isConnected is true only if the socket wsRef refers to
\* is OPEN.
C15_ConnectedOnlyWhileOpen ==
  isConnected => wsRef # Null /\ sockets[wsRef] = "OPEN"

NoNewSocket == \A w \in Slots : sockets'[w] = "CONNECTING" => sockets[w] = "CONNECTING"

\* C16 (as claimed): once the cleanup has run, no retry timer is pending or
\* gets scheduled, none fires, and no connection is created.
C16_TeardownIsFinal ==
  [][~mounted' => reconnectTimeout' = Null /\ NoNewSocket]_vars

OwnedIn(states) == wsRef # Null /\ sockets[wsRef] \in states

\* a step that invokes connectWebSocket
Start == Mount \/ TimerFire

\* C17 (as claimed): connectWebSocket invoked while the owned connection is
\* Connecting or Open creates no connection and leaves the connection, the
\* owner reference and the connectivity flag as they were.
C17_StartIdempotent ==
  [][Start /\ OwnedIn({"CONNECTING", "OPEN"}) =>
       UNCHANGED <<sockets, wsRef, isConnected>>]_vars

\* C18: connectWebSocket invoked while the owned connection is Open returns
\* at once: the sockets, the owner reference and the connectivity flag are
\* unchanged, no timer is set, and the counter keeps the value it had when
\* connectWebSocket was entered (the timer callback has incremented it and
\* consumed its timer before the call; the effect touches neither).
C18_ReconnectWhileOpenIsNoOp ==
  [][/\ Mount /\ OwnedIn({"OPEN"}) => UNCHANGED connVars
     /\ TimerFire /\ OwnedIn({"OPEN"}) =>
          /\ UNCHANGED <<sockets, wsRef, isConnected>>
          /\ reconnectAttempts' = reconnectAttempts + 1
          /\ reconnectTimeout' = Null]_vars

\* the counter is positive only if the timer fired after the owned socket opened
C18_Witness ==
  /\ OwnedIn({"OPEN"})
  /\ reconnectAttempts > 0
  /\ reconnectTimeout = Null

\* C20: every open event sets the attempt counter to 0 and the connectivity
\* flag to true, whatever they were.
C20_OpenResets ==
  [][\A w \in Slots : WsOpen(w) => reconnectAttempts' = 0 /\ isConnected' = TRUE]_vars

\* phase reopen: the counter was 3 when the connection opened
C20_Witness ==
  /\ phase = "reopen"
  /\ isConnected
  /\ reconnectAttempts = 0
  /\ LiveSockets = {wsRef}

\* status of the message sendMessage has just pushed to the active session
PushedStatus ==
  LET msgs == sessions'[CurrentSession].messages IN msgs[Len(msgs)].status

\* C19: sendTask on a socket that is not OPEN throws (sendMessage marks its
\* message 'error') and writes nothing; on an OPEN socket it writes exactly
\* one frame and returns in the same step (the message is marked 'sent'
\* with no inbound frame in between).
C19_SendTask ==
  [][\A input \in Inputs :
       HandleSend(input) =>
         IF sockets[wsRef] = "OPEN"
         THEN /\ Len(wire') = Len(wire) + 1
              /\ SubSeq(wire', 1, Len(wire)) = wire
              /\ wire'[Len(wire')].prompt = input
              /\ PushedStatus = "sent"
         ELSE /\ wire' = wire
              /\ PushedStatus = "error"]_vars

\* one send went out on an open socket, a later one found it not open
C19_Witness ==
  /\ Len(wire) = 1
  /\ \E i \in 1..Len(sessions) :
       \E k \in 1..Len(sessions[i].messages) : sessions[i].messages[k].status = "error"

\* C12: an inbound event reporting on a task sent from session A changes no
\* session other than A, and changes nothing at all (sessions, messages,
\* processing flag) when A is not the active session.
C12_EventsStayInTheirSession ==
  [][rx'.seen /\ rxTask' # 0 =>
       LET A == origin[rxTask'] IN
         /\ Len(sessions') = Len(sessions)
         /\ \A i \in 1..Len(sessions) : sessions[i].id # A => sessions'[i] = sessions[i]
         /\ currentSessionId # A => UNCHANGED <<sessions, isProcessing>>]_vars

\* the result of a task arrives while another session is the active one
C12_Witness ==
  /\ rx.seen
  /\ rx.dispatched
  /\ rx.data = CompletedHi
  /\ rxTask # 0
  /\ CurrentSession # 0
  /\ currentSessionId # origin[rxTask]

\* C21: once the attempt counter is at 5 (and until an open event resets
\* it), no retry timer is pending, no connection is created and the
\* connectivity flag is false; this holds of the step that reaches 5 and of
\* every step that leaves the counter there.
C21_ExhaustionAbsorbing ==
  [][reconnectAttempts' = maxReconnectAttempts =>
       /\ reconnectTimeout' = Null
       /\ ~isConnected'
       /\ NoNewSocket]_vars

\* exhausted, and steps have been taken since: the effect was torn down
C21_Witness ==
  /\ reconnectAttempts = maxReconnectAttempts
  /\ ~mounted
  /\ LiveSockets = {}
  /\ reconnectTimeout = Null
  /\ ~isConnected

IsPrefix(a, b) == Len(a) <= Len(b) /\ SubSeq(b, 1, Len(a)) = a

CloseEvent ==
  \E w \in Slots :
    /\ sockets[w] \in {"CONNECTING", "OPEN", "CLOSING"}
    /\ sockets'[w] \in {"CLOSED", "NONE"}

\* C24: an error or close event leaves the session list, every message
\* list, the active session id and the processing flag unchanged.
C24_CloseLeavesChatAlone ==
  [][CloseEvent => UNCHANGED <<sessions, currentSessionId, isProcessing>>]_vars

\* the connection dropped while a session with a message was active
C24_Witness ==
  /\ wsRef # Null
  /\ sockets[wsRef] = "CLOSED"
  /\ reconnectTimeout # Null
  /\ CurrentSession # 0
  /\ Len(sessions[CurrentSession].messages) >= 1

\* the active session has gained the user message `content` with status 'error'
RecordedError(content) ==
  LET old == sessions[CurrentSession].messages
      new == sessions'[CurrentSession].messages
  IN  /\ Len(new) = Len(old) + 1
      /\ new[Len(new)] = Msg("user", content, "error")

\* handleSend is invoked with text to send, a session is active and the
\* socket wsRef refers to is not open
SendWhileNotOpen ==
  /\ tx'.seen
  /\ Trim(tx'.input) # ""
  /\ CurrentSession # 0
  /\ ~OwnedIn({"OPEN"})

Returns(ops) == reply'.result # "none" /\ reply'.call.op \in ops

\* call c names a session somebody else created
Foreign(c) == Creator(c.sid) # {} /\ c.user \notin Creator(c.sid)

\* C25: addMessage and getMessages on a session another user created are
\* rejected with 'Session not found or access denied': the call returns no
\* rows and no id, stores no message, and no stored message was ever
\* added to a session by anybody but its creator.
C25_ForeignAccessDenied ==
  /\ [](\A i \in DOMAIN added : added[i].by \in Creator(added[i].sessionId))
  /\ [][Returns({"getMessages", "addMessage"}) /\ Foreign(reply'.call)
         => /\ reply'.result = "denied"
            /\ reply'.retRows = <<>>
            /\ reply'.retId = 0
            /\ UNCHANGED <<chatMessages, added>>]_vars

C25_Witness ==
  /\ reply.result = "denied"
  /\ reply.call.op = "addMessage"
  /\ Foreign(reply.call)
  /\ MessagesOf(reply.call.sid) # {}
  /\ \E r \in chatSessions : r.id = reply.call.sid

\* C26: updateSession and deleteSession by a user who did not create the
\* session, or on an id with no session row, are rejected with the
\* access-denied error instead of returning success.
C26_ForeignMutationDenied ==
  [][Returns({"updateSession", "deleteSession"})
       /\ (Foreign(reply'.call) \/ ~\E r \in chatSessions : r.id = reply'.call.sid)
     => reply'.result = "denied"]_vars

\* C27: once its creator's deleteSession has returned success, a session
\* has no row and no stored message carries its id.
C27_DeletedStaysDeleted ==
  \A s \in deleted : (~\E r \in chatSessions : r.id = s) /\ MessagesOf(s) = {}

\* C28: createSession and addMessage, when they get past the owner check,
\* return the positive id of the row that very call inserted.
C28_ReturnsOwnRow ==
  [][Returns({"createSession", "addMessage"}) /\ reply'.result # "denied"
     => /\ reply'.result = "ok"
        /\ reply'.retId > 0
        /\ reply'.retId = reply'.call.made]_vars

\* C29: for every user, the session rows of that user are exactly the
\* sessions the user created and has not deleted, and getSessions returns
\* exactly those, each once.
Owned(u) == {s \in 1..sessionSeq : u \in Creator(s)} \ deleted
Ids(f) == {f[i].id : i \in DOMAIN f}
C29_OwnSessionsExactly ==
  /\ [](\A u \in Users : {r.id : r \in SessionsOf(u)} = Owned(u))
  /\ [][Returns({"getSessions"})
         => /\ reply'.result = "ok"
            /\ Ids(reply'.retRows) = Owned(reply'.call.user)
            /\ Len(reply'.retRows) = Cardinality(Owned(reply'.call.user))]_vars

C29_Witness ==
  /\ reply.call.op = "getSessions"
  /\ reply.result = "ok"
  /\ Len(reply.retRows) >= 1
  /\ \E r \in chatSessions : r.userId # reply.call.user

\* C30: getMessages by the owner returns exactly the messages added to
\* the session, with their role and content, in the order they were added.
Shown(rows) ==
  [i \in DOMAIN rows |-> [id |-> rows[i].id, sessionId |-> rows[i].sessionId,
                           role |-> rows[i].role, content |-> rows[i].content]]
AddedTo(s) ==
  LET In(m) == m.sessionId = s
  IN  Shown(SelectSeq(added, In))
C30_MessagesAsAdded ==
  [][Returns({"getMessages"}) /\ reply'.result = "ok"
     => Shown(reply'.retRows) = AddedTo(reply'.call.sid)]_vars

\* ------------------------------------------------- retries, once more
\* the pending retry timer fires / is cancelled by the cleanup
Fired     == reconnectTimeout # Null /\ reconnectTimeout' = Null /\ mounted' = mounted
Cancelled == reconnectTimeout # Null /\ reconnectTimeout' = Null /\ mounted' # mounted

\* C31: a retry timer that fires adds exactly one to the attempt counter,
\* and the connection attempt it makes sees the counter already incremented
\* (it creates a connection exactly when the incremented counter allows
\* one); only a firing timer raises the counter; a close or error event
\* (which schedules the timer) and the cancelling of a timer leave the
\* counter as it was.
C31_CountedWhenFired ==
  [][/\ Fired => /\ reconnectAttempts' = reconnectAttempts + 1
               /\ NoNewSocket <=> ~WouldCreate(reconnectAttempts + 1)
     /\ reconnectAttempts' > reconnectAttempts => Fired
     /\ CloseEvent => reconnectAttempts' = reconnectAttempts
     /\ Cancelled => reconnectAttempts' = reconnectAttempts]_vars

\* the second retry has fired and made its connection attempt
C31_Witness ==
  /\ reconnectAttempts = 2
  /\ reconnectTimeout = Null
  /\ OwnedIn({"CONNECTING"})
  /\ mounted

\* C32: while every connection fails, each of the five retry timers that
\* fire (after 3000, 6000, 12000, 24000 and 30000 ms, announced as attempts
\* 1/5 .. 5/5) creates a new connection.
C32_EveryRetryConnects ==
  [][Fired /\ LiveSockets = {} /\ reconnectTimeout = ExpectedDelays[reconnectAttempts + 1]
       => ~NoNewSocket]_vars

\* C33: the handler of a connection reads the active session at the moment
\* an event is received: an event received while a session created after the
\* connection was started is active is applied to that session (task_started
\* sets the processing flag; task_failed and error add one message to it).
C33_HandlerSeesActiveSession ==
  [][/\ rx'.seen
     /\ rx'.dispatched
     /\ CurrentSession # 0
     /\ currentSessionId > 1
     => /\ rx'.data.type = "task_started" => isProcessing'
        /\ rx'.data.type \in {"task_failed", "error"} =>
             Len(sessions'[CurrentSession].messages) = Len(sessions[CurrentSession].messages) + 1]_vars

\* ------------------------------------------------- the server, once more
\* the title of session s, or none when it has no row
TitleOf(rows, s) == {r.title : r \in {x \in rows : x.id = s}}

\* C34: a step of a call made by a user leaves every session created by
\* another user as it was: its row exists or not as before, with the same
\* title, and the messages stored for it are the same.
C34_OthersSessionsUntouched ==
  [][\A p \in Procs, s \in 1..sessionSeq :
       calls'[p] # calls[p] /\ calls[p].pc # "idle" /\ Foreign([calls[p] EXCEPT !.sid = s])
       => /\ TitleOf(chatSessions', s) = TitleOf(chatSessions, s)
          /\ {m \in chatMessages' : m.sessionId = s} = MessagesOf(s)]_vars

\* C35: whenever no call is being served, every stored message names a
\* session that has a row.
C35_NoOrphanMessage ==
  (\A p \in Procs : calls[p].pc = "idle")
    => \A m \in chatMessages : \E r \in chatSessions : r.id = m.sessionId

\* -------------------------------------------- invariants of the retries
\* C36: the attempt counter is an integer from 0 to 5.
C36_CounterInRange == reconnectAttempts \in 0..maxReconnectAttempts

\* the counter is at 5 and the last connection has closed since
C36_Witness ==
  /\ reconnectAttempts = maxReconnectAttempts
  /\ mounted
  /\ wsRef # Null
  /\ sockets[wsRef] = "CLOSED"
  /\ ExistingSockets = {}

\* C37: a retry timer is pending only while no connection is connecting or
\* open (reconnectTimeout holds the one timer there can be).
C37_TimerOnlyWhileDown == reconnectTimeout # Null => LiveSockets = {}

\* ------------------------------------------------- the processing flag
\* setIsProcessing is called only inside the updater of
\* handleWebSocketMessage, behind the lookup of the handler's session: the
\* flag keeps its initial value.
ProcessingNeverSet == ~isProcessing

\* ---------------------------------------------------------- recovery
\* C39: when connections stop being lost (every loss happens with the
\* attempt counter below 5: there is no other in SpecRecover), the manager
\* ends up with its connection open, the connectivity flag true and the
\* counter 0.
C39_Recovers ==
  \/ []<><<CloseEvent>>_vars
  \/ <>[](OwnedIn({"OPEN"}) /\ isConnected /\ reconnectAttempts = 0)

\* --------------------------------------------------- one task at a time
\* C40: while a task is outstanding (it was submitted and nothing but its
\* task_started and status events has been received since), no further task
\* frame is written.
C40_OneTaskOutstanding ==
  [][(e2e \in {1, 2, 3}) => Len(wire') = Len(wire)]_vars

====
